---- MODULE Spec2Model ----
(***************************************************************************)
(* Request marshalling layer of src/requests.rs: the conversions generated *)
(* by the request! macro (one per request kind, with and without a request *)
(* identifier) and the dispatcher TryFrom<OutgoingRequest> for             *)
(* OutgoingRequests.                                                       *)
(*                                                                         *)
(* Rust values are records tagged by `rs`, serde_json values are records   *)
(* tagged by `json`, and a JSON text is the sequence of its lexical tokens *)
(* (TLA+ strings cannot be taken apart, so a text is kept at the token     *)
(* level: punctuation, string literals, numbers, null).  Unsigned integers *)
(* wider than TLC's machine integers (u64, u128) are sequences of decimal  *)
(* digits, most significant first, compared at their full width.           *)
(***************************************************************************)
EXTENDS Integers, Sequences, FiniteSets, TLC

VARIABLES
    preserve_order, \* serde_json's "preserve_order" build feature (fixed per build)
    request_id,     \* the identifier of the outgoing request
    request,        \* the source payload (one of the seven source request types)
    without_id,     \* last result of TryFrom<&source>, or NoResult
    with_id,        \* last result of TryFrom<(String, &source)>, or NoResult
    dispatched      \* last result of OutgoingRequests::try_from, or NoResult

vars == <<preserve_order, request_id, request, without_id, with_id, dispatched>>

----------------------------------------------------------------------------
(* Bounds of the model *)

\* number of distinct request / transaction identifiers drawn from IdNames
NumIds == 2

\* largest number of entries of a source map (BTreeMap) field
MaxEntries == 1

----------------------------------------------------------------------------
(* Result<T, napi::Error> *)

Ok(v) == [ok |-> TRUE, value |-> v]

Err(e) == [ok |-> FALSE, error |-> e]

\* crate::into_err: wraps the failure of a serialization or of the integer
\* conversion into the error returned to the caller
into_err(e) == [kind |-> "SerializationError", reason |-> e]

NoResult == [called |-> FALSE]

----------------------------------------------------------------------------
(* Decimal arithmetic at full width *)

RECURSIVE StripZeros(_)
StripZeros(d) == IF Len(d) > 1 /\ d[1] = 0 THEN StripZeros(Tail(d)) ELSE d

Digits3(n) == <<n \div 100, (n \div 10) % 10, n % 10>>

Digits9(n) ==
    <<n \div 100000000, (n \div 10000000) % 10, (n \div 1000000) % 10,
      (n \div 100000) % 10, (n \div 10000) % 10, (n \div 1000) % 10,
      (n \div 100) % 10, (n \div 10) % 10, n % 10>>

LessEq(a, b) ==
    \/ Len(a) < Len(b)
    \/ /\ Len(a) = Len(b)
       /\ \/ a = b
          \/ \E i \in 1..Len(a) :
                /\ a[i] < b[i]
                /\ \A j \in 1..(i - 1) : a[j] = b[j]

\* u64::MAX = 2^64 - 1
U64_MAX == <<1,8,4,4,6,7,4,4,0,7,3,7,0,9,5,5,1,6,1,5>>

\* mutant of as_millis: Duration::as_nanos in its place
as_nanos(duration) == StripZeros(duration.secs \o Digits9(duration.nanos))

\* mutant of as_millis: Duration::as_secs in its place
as_secs(duration) == duration.secs

\* Duration::as_millis: secs * 1000 + subsec_nanos / 1_000_000, as a u128
as_millis(duration) ==
    StripZeros(duration.secs \o Digits3(duration.nanos \div 1000000))

\* mutant of u64_try_from: u64::MAX itself refused
u64_try_from_below_max(n) ==
    IF LessEq(n, U64_MAX) /\ n # U64_MAX THEN Ok(n) ELSE Err("TryFromIntError")

\* u64::try_from(u128)
u64_try_from(n) == IF LessEq(n, U64_MAX) THEN Ok(n) ELSE Err("TryFromIntError")

----------------------------------------------------------------------------
(* Rust values of the source payloads *)

None == [rs |-> "None"]

Some(v) == [rs |-> "Some", v |-> v]

U64(d) == [rs |-> "u64", d |-> d]

Str(s) == [rs |-> "String", str |-> s]

BTreeMap(entries) == [rs |-> "BTreeMap", entries |-> entries]

\* a struct deriving Serialize: its fields in declaration order
Struct(entries) == [rs |-> "Struct", entries |-> entries]

Duration(secs, nanos) == [rs |-> "Duration", secs |-> secs, nanos |-> nanos]

\* a value whose Serialize implementation reports an error to serde_json
Unserializable == [rs |-> "Unserializable"]

TransactionId(s) == [rs |-> "TransactionId", str |-> s]

RoomId(s) == [rs |-> "RoomId", str |-> s]

ToDeviceEventType(variant) == [rs |-> "ToDeviceEventType", variant |-> variant]

MessageLikeEventType(variant) == [rs |-> "MessageLikeEventType", variant |-> variant]

AnyMessageLikeEventContent(variant, content) ==
    [rs |-> "AnyMessageLikeEventContent", variant |-> variant, content |-> content]

\* Display of the event-type enums
EventTypeName ==
    [RoomKey |-> "m.room_key", Dummy |-> "m.dummy",
     RoomMessage |-> "m.room.message", RoomEncrypted |-> "m.room.encrypted"]

\* ToString::to_string of an identifier or an event type
to_string(v) ==
    IF v.rs \in {"ToDeviceEventType", "MessageLikeEventType"}
    THEN EventTypeName[v.variant]
    ELSE v.str

\* EventContent::event_type of a message-like content
event_type(content) == MessageLikeEventType(content.variant)

----------------------------------------------------------------------------
(* serde_json *)

Null == [json |-> "Null"]

Number(d) == [json |-> "Number", d |-> d]

String(s) == [json |-> "String", s |-> s]

Object(map) == [json |-> "Object", map |-> map]

\* every object key of the model, in the byte order a BTreeMap keeps
KeyOrder ==
    <<"@alice:example.org", "@bob:example.org", "@carol:example.org",
      "algorithm", "body", "ciphertext", "content", "device_keys",
      "fallback_keys", "messages", "msgtype", "one_time_keys", "rooms",
      "signed_keys", "timeout">>

Rank(k) == CHOOSE i \in 1..Len(KeyOrder) : KeyOrder[i] = k

\* serde_json::Map::insert: a BTreeMap by default, an IndexMap (insertion
\* order) with preserve_order; an existing key has its value replaced
insert(map, k, v, po) ==
    LET e == [k |-> k, v |-> v]
    IN  IF \E i \in 1..Len(map) : map[i].k = k
        THEN [i \in 1..Len(map) |-> IF map[i].k = k THEN e ELSE map[i]]
        ELSE IF po
        THEN Append(map, e)
        ELSE LET n == Cardinality({i \in 1..Len(map) : Rank(map[i].k) < Rank(k)})
             IN  SubSeq(map, 1, n) \o <<e>> \o SubSeq(map, n + 1, Len(map))

Keys(map) == {map[i].k : i \in 1..Len(map)}

Get(map, k) == map[CHOOSE i \in 1..Len(map) : map[i].k = k].v

RECURSIVE to_value(_, _)
RECURSIVE SerializeEntries(_, _, _, _)
SerializeEntries(entries, i, map, po) ==
    IF i > Len(entries)
    THEN Ok(map)
    ELSE LET r == to_value(entries[i].v, po)
         IN  IF ~r.ok
             THEN r
             ELSE SerializeEntries(entries, i + 1,
                                   insert(map, entries[i].k, r.value, po), po)

\* serde_json::to_value
to_value(v, po) ==
    CASE v.rs = "None" -> Ok(Null)
      [] v.rs = "Some" -> to_value(v.v, po)
      [] v.rs = "u64" -> Ok(Number(v.d))
      [] v.rs = "String" -> Ok(String(v.str))
      [] v.rs \in {"BTreeMap", "Struct"} ->
            LET r == SerializeEntries(v.entries, 1, <<>>, po)
            IN  IF r.ok THEN Ok(Object(r.value)) ELSE r
      [] v.rs = "AnyMessageLikeEventContent" -> to_value(v.content, po)
      [] OTHER -> Err("serde_json::Error")

Tok(t) == [t |-> t]

RECURSIVE WriteValue(_)
RECURSIVE WriteMembers(_, _)
WriteMembers(map, i) ==
    IF i > Len(map)
    THEN <<>>
    ELSE (IF i > 1 THEN <<Tok(",")>> ELSE <<>>)
         \o <<[t |-> "str", s |-> map[i].k], Tok(":")>>
         \o WriteValue(map[i].v)
         \o WriteMembers(map, i + 1)

\* the JSON text of a serde_json::Value
WriteValue(value) ==
    CASE value.json = "Null" -> <<Tok("null")>>
      [] value.json = "Number" -> <<[t |-> "num", d |-> value.d]>>
      [] value.json = "String" -> <<[t |-> "str", s |-> value.s]>>
      [] value.json = "Object" ->
            <<Tok("{")>> \o WriteMembers(value.map, 1) \o <<Tok("}")>>

\* serde_json::to_string of a serde_json::Value
value_to_string(value) == Ok(WriteValue(value))

\* serde_json::to_string of a Rust value: the serializer writes the entries
\* in the order the value yields them
serde_json_to_string(v) ==
    LET r == to_value(v, TRUE)
    IN  IF r.ok THEN value_to_string(r.value) ELSE r

ParseFail == [ok |-> FALSE]

RECURSIVE ParseValue(_, _, _)
RECURSIVE ParseMembers(_, _, _, _)
ParseMembers(toks, i, map, po) ==
    IF i + 1 > Len(toks) \/ toks[i].t # "str" \/ toks[i + 1].t # ":"
    THEN ParseFail
    ELSE LET r == ParseValue(toks, i + 2, po)
         IN  IF ~r.ok
             THEN ParseFail
             ELSE LET m == insert(map, toks[i].s, r.value, po)
                      n == r.next
                  IN  IF n > Len(toks)
                      THEN ParseFail
                      ELSE IF toks[n].t = "}"
                      THEN [ok |-> TRUE, value |-> Object(m), next |-> n + 1]
                      ELSE IF toks[n].t = ","
                      THEN ParseMembers(toks, n + 1, m, po)
                      ELSE ParseFail

ParseValue(toks, i, po) ==
    IF i > Len(toks)
    THEN ParseFail
    ELSE CASE toks[i].t = "null" -> [ok |-> TRUE, value |-> Null, next |-> i + 1]
           [] toks[i].t = "num" ->
                 [ok |-> TRUE, value |-> Number(toks[i].d), next |-> i + 1]
           [] toks[i].t = "str" ->
                 [ok |-> TRUE, value |-> String(toks[i].s), next |-> i + 1]
           [] toks[i].t = "{" ->
                 IF i + 1 <= Len(toks) /\ toks[i + 1].t = "}"
                 THEN [ok |-> TRUE, value |-> Object(<<>>), next |-> i + 2]
                 ELSE ParseMembers(toks, i + 1, <<>>, po)
           [] OTHER -> ParseFail

\* parsing a body as JSON (serde_json::from_str, JSON.parse)
from_str(toks, po) ==
    LET r == ParseValue(toks, 1, po)
    IN  IF r.ok /\ r.next = Len(toks) + 1
        THEN Ok(r.value)
        ELSE Err("serde_json::Error")

\* equality of two JSON values, whatever the order of the keys
RECURSIVE JsonEq(_, _)
JsonEq(a, b) ==
    /\ a.json = b.json
    /\ CASE a.json = "Object" ->
               /\ Keys(a.map) = Keys(b.map)
               /\ Len(a.map) = Len(b.map)
               /\ \A k \in Keys(a.map) : JsonEq(Get(a.map, k), Get(b.map, k))
         [] OTHER -> a = b

----------------------------------------------------------------------------
(* The request! macro *)

\* the seven request! invocations: destination, source, extracted fields
\* (name : type) and grouped fields (name, with or without a transformation)
Schema ==
    [KeysUploadRequest |->
        [from |-> "RumaKeysUploadRequest", extracts |-> <<>>,
         groups |-> <<[name |-> "device_keys", transformation |-> FALSE],
                      [name |-> "one_time_keys", transformation |-> FALSE],
                      [name |-> "fallback_keys", transformation |-> FALSE]>>],
     KeysQueryRequest |->
        [from |-> "RumaKeysQueryRequest", extracts |-> <<>>,
         groups |-> <<[name |-> "timeout", transformation |-> TRUE],
                      [name |-> "device_keys", transformation |-> FALSE]>>],
     KeysClaimRequest |->
        [from |-> "RumaKeysClaimRequest", extracts |-> <<>>,
         groups |-> <<[name |-> "timeout", transformation |-> TRUE],
                      [name |-> "one_time_keys", transformation |-> FALSE]>>],
     ToDeviceRequest |->
        [from |-> "RumaToDeviceRequest",
         extracts |-> <<[name |-> "event_type", type |-> "string"],
                        [name |-> "txn_id", type |-> "string"]>>,
         groups |-> <<[name |-> "messages", transformation |-> FALSE]>>],
     SignatureUploadRequest |->
        [from |-> "RumaSignatureUploadRequest", extracts |-> <<>>,
         groups |-> <<[name |-> "signed_keys", transformation |-> FALSE]>>],
     RoomMessageRequest |->
        [from |-> "RumaRoomMessageRequest",
         extracts |-> <<[name |-> "room_id", type |-> "string"],
                        [name |-> "txn_id", type |-> "string"],
                        [name |-> "event_type", type |-> "event_type"],
                        [name |-> "content", type |-> "json"]>>,
         groups |-> <<>>],
     KeysBackupRequest |->
        [from |-> "RumaKeysBackupRequest", extracts |-> <<>>,
         groups |-> <<[name |-> "rooms", transformation |-> FALSE]>>]]

Destinations == DOMAIN Schema

\* the destination a source request type converts to ("X from Y")
Destination(source_request) ==
    CHOOSE d \in Destinations : Schema[d].from = source_request

Extracts(destination_request) == Schema[destination_request].extracts

Groups(destination_request) == Schema[destination_request].groups

\* the fields each destination struct declares
StructFields ==
    [KeysUploadRequest |-> {"id", "body"},
     KeysQueryRequest |-> {"id", "body"},
     KeysClaimRequest |-> {"id", "body"},
     ToDeviceRequest |-> {"id", "event_type", "txn_id", "body"},
     SignatureUploadRequest |-> {"id", "body"},
     RoomMessageRequest |-> {"id", "room_id", "txn_id", "event_type", "content"},
     KeysBackupRequest |-> {"id", "body"}]

\* the `type` getter of each destination struct
RequestTypeOf ==
    [KeysUploadRequest |-> "KeysUpload",
     KeysQueryRequest |-> "KeysQuery",
     KeysClaimRequest |-> "KeysClaim",
     ToDeviceRequest |-> "ToDevice",
     SignatureUploadRequest |-> "SignatureUpload",
     RoomMessageRequest |-> "RoomMessage",
     KeysBackupRequest |-> "KeysBackup"]

RequestType ==
    {"KeysUpload", "KeysQuery", "KeysClaim", "ToDevice", "SignatureUpload",
     "RoomMessage", "KeysBackup"}

\* mutant of request_type: the getter of KeysClaimRequest copied from
\* KeysQueryRequest
request_type_copied(record) ==
    IF record.struct = "KeysClaimRequest"
    THEN "KeysQuery"
    ELSE RequestTypeOf[record.struct]

request_type(record) == RequestTypeOf[record.struct]

\* the `body` property of a record as the caller reads it: the field `body`,
\* or for a RoomMessageRequest the field `content` (js_name = "body")
js_body(record) ==
    IF record.struct = "RoomMessageRequest"
    THEN record.fields.content
    ELSE record.fields.body

\* the transformation of the grouped field `timeout`:
\* timeout.as_ref().map(Duration::as_millis).map(u64::try_from).transpose()
\*     .map_err(into_err)?
timeout_transformation(timeout) ==
    IF timeout.rs = "None"
    THEN Ok(None)
    ELSE LET r == u64_try_from(as_millis(timeout.v))
         IN  IF r.ok THEN Ok(Some(U64(r.value))) ELSE Err(into_err(r.error))

\* mutant of field_value: a json field written as an object keyed by the
\* name of the field, as a grouped field is
field_value_keyed(field_name, field_type, req) ==
    CASE field_type = "string" -> Ok(to_string(req[field_name]))
      [] field_type = "json" ->
            LET v == to_value(req[field_name], preserve_order)
            IN  IF v.ok
                THEN value_to_string(Object(<<[k |-> field_name, v |-> v.value]>>))
                ELSE Err(into_err(v.error))
      [] field_type = "event_type" -> Ok(to_string(event_type(req.content)))

\* @__field_type as string / json / event_type
field_value(field_name, field_type, req) ==
    CASE field_type = "string" -> Ok(to_string(req[field_name]))
      [] field_type = "json" ->
            LET s == serde_json_to_string(req[field_name])
            IN  IF s.ok THEN s ELSE Err(into_err(s.error))
      [] field_type = "event_type" -> Ok(to_string(event_type(req.content)))

\* the extracted fields of the struct literal, in order; `?` returns the
\* first error
RECURSIVE ExtractFields(_, _, _, _)
ExtractFields(extracts, i, req, fields) ==
    IF i > Len(extracts)
    THEN Ok(fields)
    ELSE LET f == field_value(extracts[i].name, extracts[i].type, req)
         IN  IF ~f.ok
             THEN f
             ELSE ExtractFields(extracts, i + 1, req,
                                fields @@ (extracts[i].name :> f.value))

\* one grouped field: the field read from the request, transformed when a
\* transformation is declared, then serde_json::to_value(field).map_err(into_err)?
grouped_value(group, req) ==
    LET t == IF group.transformation
             THEN timeout_transformation(req[group.name])
             ELSE Ok(req[group.name])
    IN  IF ~t.ok
        THEN t
        ELSE LET v == to_value(t.value, preserve_order)
             IN  IF v.ok THEN v ELSE Err(into_err(v.error))

\* mutant of GroupFields: a field whose value is null is left out
RECURSIVE GroupFieldsSkipNull(_, _, _, _)
GroupFieldsSkipNull(groups, i, req, map) ==
    IF i > Len(groups)
    THEN Ok(map)
    ELSE LET v == grouped_value(groups[i], req)
         IN  IF ~v.ok
             THEN v
             ELSE GroupFieldsSkipNull(groups, i + 1, req,
                      IF v.value = Null
                      THEN map
                      ELSE insert(map, groups[i].name, v.value, preserve_order))

\* the loop over the grouped fields: map.insert(name, value) for each
RECURSIVE GroupFields(_, _, _, _)
GroupFields(groups, i, req, map) ==
    IF i > Len(groups)
    THEN Ok(map)
    ELSE LET v == grouped_value(groups[i], req)
         IN  IF ~v.ok
             THEN v
             ELSE GroupFields(groups, i + 1, req,
                              insert(map, groups[i].name, v.value, preserve_order))

\* body: { let mut map = Map::new(); ...; to_string(&Value::Object(map)) }
body(groups, req) ==
    LET m == GroupFields(groups, 1, req, <<>>)
    IN  IF ~m.ok
        THEN m
        ELSE LET s == value_to_string(Object(m.value))
             IN  IF s.ok THEN s ELSE Err(into_err(s.error))

\* mutant of try_from_impl: when the body fails, the record built so far is
\* returned
try_from_impl_partial(destination_request, id, req) ==
    LET ex == ExtractFields(Extracts(destination_request), 1, req, "id" :> id)
        groups == Groups(destination_request)
    IN  IF ~ex.ok
        THEN ex
        ELSE IF groups = <<>>
        THEN Ok([struct |-> destination_request, fields |-> ex.value])
        ELSE LET b == body(groups, req)
             IN  IF ~b.ok
                 THEN Ok([struct |-> destination_request, fields |-> ex.value])
                 ELSE Ok([struct |-> destination_request,
                          fields |-> ex.value @@ ("body" :> b.value)])

\* @__try_from: Ok($destination_request { id, extracted fields, body })
try_from_impl(destination_request, id, req) ==
    LET ex == ExtractFields(Extracts(destination_request), 1, req, "id" :> id)
        groups == Groups(destination_request)
    IN  IF ~ex.ok
        THEN ex
        ELSE IF groups = <<>>
        THEN Ok([struct |-> destination_request, fields |-> ex.value])
        ELSE LET b == body(groups, req)
             IN  IF ~b.ok
                 THEN b
                 ELSE Ok([struct |-> destination_request,
                          fields |-> ex.value @@ ("body" :> b.value)])

\* mutant of try_from: only the grouped fields are forwarded to @__try_from
try_from_groups_only(destination_request, req) ==
    LET groups == Groups(destination_request)
    IN  IF groups = <<>>
        THEN Ok([struct |-> destination_request, fields |-> "id" :> ""])
        ELSE LET b == body(groups, req)
             IN  IF ~b.ok
                 THEN b
                 ELSE Ok([struct |-> destination_request,
                          fields |-> ("id" :> "") @@ ("body" :> b.value)])

\* impl TryFrom<&$source_request>: request_id = String::new()
try_from(destination_request, req) ==
    try_from_impl(destination_request, "", req)

\* impl TryFrom<(String, &$source_request)>: request_id = request_id.into()
try_from_with_id(destination_request, id, req) ==
    try_from_impl(destination_request, id, req)

----------------------------------------------------------------------------
(* The dispatcher *)

\* the variants of AnyOutgoingRequest the dispatcher matches on, with the
\* source request type each one carries
AnyOutgoingRequest ==
    [KeysUpload |-> "RumaKeysUploadRequest",
     KeysQuery |-> "RumaKeysQueryRequest",
     KeysClaim |-> "RumaKeysClaimRequest",
     ToDeviceRequest |-> "RumaToDeviceRequest",
     SignatureUpload |-> "RumaSignatureUploadRequest",
     RoomMessage |-> "RumaRoomMessageRequest"]

\* OutgoingRequests = Either6<...>: the struct each arm holds
OutgoingRequests ==
    [A |-> "KeysUploadRequest", B |-> "KeysQueryRequest",
     C |-> "KeysClaimRequest", D |-> "ToDeviceRequest",
     E |-> "SignatureUploadRequest", F |-> "RoomMessageRequest"]

OutgoingRequest(id, variant, req) ==
    [request_id |-> id, variant |-> variant, request |-> req]

\* Either6::X(...try_from((request_id, request))?)
Either6(arm, r) == IF r.ok THEN Ok([arm |-> arm, record |-> r.value]) ELSE r

\* the arm of each match case
MatchArm ==
    [KeysUpload |-> "A", KeysQuery |-> "B", KeysClaim |-> "C",
     ToDeviceRequest |-> "D", SignatureUpload |-> "E", RoomMessage |-> "F"]

\* mutant of dispatch_request_id: String::new() in its place
dispatch_request_id_empty(outgoing_request) == ""

\* the request identifier the dispatcher hands to the converters
dispatch_request_id(outgoing_request) == to_string(outgoing_request.request_id)

\* impl TryFrom<OutgoingRequest> for OutgoingRequests
OutgoingRequests_try_from(outgoing_request) ==
    LET id == dispatch_request_id(outgoing_request)
        arm == MatchArm[outgoing_request.variant]
    IN  Either6(arm, try_from_with_id(OutgoingRequests[arm], id,
                                      outgoing_request.request))

----------------------------------------------------------------------------
(* Inputs *)

IdNames == <<"1", "42", "7f3a">>

TransactionIds == {TransactionId(IdNames[i]) : i \in 1..NumIds}

RoomIds == {RoomId("!abc:example.org"), RoomId("!xyz:example.org")}

Names == <<"@alice:example.org", "@bob:example.org", "@carol:example.org">>

RECURSIVE EntriesOf(_, _)
EntriesOf(S, i) ==
    IF i > Len(Names)
    THEN <<>>
    ELSE (IF i \in S THEN <<[k |-> Names[i], v |-> BTreeMap(<<>>)]>> ELSE <<>>)
         \o EntriesOf(S, i + 1)

\* the maps of at most MaxEntries entries, in key order
Maps == {BTreeMap(EntriesOf(S, 1)) : S \in SUBSET (1..MaxEntries)}

MapFields == Maps \cup {Unserializable}

OptionFields == {None} \cup {Some(m) : m \in Maps} \cup {Unserializable}

\* 18446744073709551 = u64::MAX / 1000
MaxSecs == <<1,8,4,4,6,7,4,4,0,7,3,7,0,9,5,5,1>>

Durations ==
    {Duration(<<1,0>>, 0),
     Duration(<<0>>, 1500000),
     Duration(MaxSecs, 615000000),
     Duration(MaxSecs, 615999999),
     Duration(MaxSecs, 616000000),
     Duration(<<1,8,4,4,6,7,4,4,0,7,3,7,0,9>>, 551615001),
     Duration(U64_MAX, 999999999)}

Timeouts == {None} \cup {Some(d) : d \in Durations}

Contents ==
    {AnyMessageLikeEventContent("RoomMessage",
        Struct(<<[k |-> "msgtype", v |-> Str("m.text")],
                 [k |-> "body", v |-> Str("hello")]>>)),
     AnyMessageLikeEventContent("RoomEncrypted",
        Struct(<<[k |-> "algorithm", v |-> Str("m.megolm.v1.aes-sha2")],
                 [k |-> "ciphertext", v |-> Str("AwgAEn")]>>)),
     AnyMessageLikeEventContent("RoomMessage", Unserializable)}

SourceRequests ==
    [type : {"RumaKeysUploadRequest"}, device_keys : OptionFields,
     one_time_keys : MapFields, fallback_keys : MapFields]
    \cup [type : {"RumaKeysQueryRequest"}, timeout : Timeouts,
          device_keys : MapFields]
    \cup [type : {"RumaKeysClaimRequest"}, timeout : Timeouts,
          one_time_keys : MapFields]
    \cup [type : {"RumaToDeviceRequest"},
          event_type : {ToDeviceEventType("RoomKey"), ToDeviceEventType("Dummy")},
          txn_id : TransactionIds, messages : MapFields]
    \cup [type : {"RumaSignatureUploadRequest"}, signed_keys : MapFields]
    \cup [type : {"RumaRoomMessageRequest"}, room_id : RoomIds,
          txn_id : TransactionIds, content : Contents]
    \cup [type : {"RumaKeysBackupRequest"}, rooms : MapFields]

----------------------------------------------------------------------------
(* The state machine *)

Init ==
    /\ preserve_order \in BOOLEAN
    /\ request_id \in TransactionIds
    /\ request \in SourceRequests
    /\ without_id = NoResult
    /\ with_id = NoResult
    /\ dispatched = NoResult

\* $destination_request::try_from(&request)
TryFrom ==
    /\ without_id' = try_from(Destination(request.type), request)
    /\ UNCHANGED <<preserve_order, request_id, request, with_id, dispatched>>

\* $destination_request::try_from((request_id, &request))
TryFromWithId ==
    /\ with_id' = try_from_with_id(Destination(request.type),
                                   to_string(request_id), request)
    /\ UNCHANGED <<preserve_order, request_id, request, without_id, dispatched>>

\* the variants of AnyOutgoingRequest that carry a request of this type
Variants(source_request) ==
    {variant \in DOMAIN AnyOutgoingRequest :
        AnyOutgoingRequest[variant] = source_request}

\* OutgoingRequests::try_from(outgoing_request), for a request that is a
\* variant of AnyOutgoingRequest
Dispatch ==
    /\ \E variant \in Variants(request.type) :
          dispatched' = OutgoingRequests_try_from(
                            OutgoingRequest(request_id, variant, request))
    /\ UNCHANGED <<preserve_order, request_id, request, without_id, with_id>>

Next == TryFrom \/ TryFromWithId \/ Dispatch

Spec == Init /\ [][Next]_vars

----------------------------------------------------------------------------
(* Vocabulary of the properties *)

\* the kind each source request type stands for
KindOf ==
    [RumaKeysUploadRequest |-> "KeysUpload",
     RumaKeysQueryRequest |-> "KeysQuery",
     RumaKeysClaimRequest |-> "KeysClaim",
     RumaToDeviceRequest |-> "ToDevice",
     RumaSignatureUploadRequest |-> "SignatureUpload",
     RumaRoomMessageRequest |-> "RoomMessage",
     RumaKeysBackupRequest |-> "KeysBackup"]

Kind == KindOf[request.type]

\* the result of the dispatcher without its union arm
Unwrapped ==
    IF dispatched = NoResult \/ ~dispatched.ok
    THEN dispatched
    ELSE Ok(dispatched.value.record)

\* the results of the conversions made so far
Returned == {r \in {without_id, with_id, Unwrapped} : r # NoResult}

Failed(r) == r # NoResult /\ ~r.ok

Succeeded(r) == r # NoResult /\ r.ok

SerializationError(r) == Failed(r) /\ r.error.kind = "SerializationError"

\* the body of a successful result, parsed as JSON
ParsedBody(r) == from_str(js_body(r.value), preserve_order)

HasTimeout == request.type \in {"RumaKeysQueryRequest", "RumaKeysClaimRequest"}

\* the other grouped field of a request with a timeout
OtherField ==
    IF request.type = "RumaKeysQueryRequest" THEN "device_keys" ELSE "one_time_keys"

\* the whole milliseconds of each duration of the model, worked out by hand
WholeMillis(d) ==
    CASE d = Duration(<<1,0>>, 0) -> <<1,0,0,0,0>>
      [] d = Duration(<<0>>, 1500000) -> <<1>>
      [] d = Duration(MaxSecs, 615000000) ->
            <<1,8,4,4,6,7,4,4,0,7,3,7,0,9,5,5,1,6,1,5>>
      [] d = Duration(MaxSecs, 615999999) ->
            <<1,8,4,4,6,7,4,4,0,7,3,7,0,9,5,5,1,6,1,5>>
      [] d = Duration(MaxSecs, 616000000) ->
            <<1,8,4,4,6,7,4,4,0,7,3,7,0,9,5,5,1,6,1,6>>
      [] d = Duration(<<1,8,4,4,6,7,4,4,0,7,3,7,0,9>>, 551615001) ->
            <<1,8,4,4,6,7,4,4,0,7,3,7,0,9,5,5,1>>
      [] d = Duration(U64_MAX, 999999999) ->
            <<1,8,4,4,6,7,4,4,0,7,3,7,0,9,5,5,1,6,1,5,9,9,9>>

\* the durations of the model whose whole milliseconds exceed u64::MAX
TooLong == {Duration(MaxSecs, 616000000), Duration(U64_MAX, 999999999)}

\* a duration in nanoseconds
Nanos(d) == StripZeros(d.secs \o Digits9(d.nanos))

----------------------------------------------------------------------------
(* C1 *)

SixKinds ==
    {"KeysUpload", "KeysQuery", "KeysClaim", "ToDevice", "SignatureUpload",
     "RoomMessage"}

\* the dispatcher returns, for a request it is given, the arm and the type
\* tag of the request's kind, and fails exactly when the converter fails
DispatchedRight ==
    /\ Succeeded(dispatched) =>
          /\ OutgoingRequests[dispatched.value.arm] = dispatched.value.record.struct
          /\ dispatched.value.record.struct = Destination(request.type)
          /\ request_type(dispatched.value.record) = Kind
    /\ (dispatched # NoResult /\ with_id # NoResult) =>
          /\ dispatched.ok <=> with_id.ok
          /\ Failed(dispatched) => dispatched.error = with_id.error

\* C1 as stated: the dispatcher is total over all seven kinds: whenever the
\* converter of the request's kind succeeds, the dispatcher takes the
\* request and returns the arm and the type tag of that kind
C1_SevenKinds ==
    /\ (Kind \in RequestType /\ Succeeded(with_id)) => Variants(request.type) # {}
    /\ DispatchedRight

\* C1 amended: the dispatcher is total over the six kinds KeysUpload,
\* KeysQuery, KeysClaim, ToDevice, SignatureUpload and RoomMessage, and takes
\* no KeysBackup request: for a request of one of the six kinds it returns
\* the arm and the type tag of that kind when the converter succeeds, and
\* fails exactly when (and as) the converter fails
C1_SixKinds ==
    /\ (Kind \in SixKinds) <=> Variants(request.type) # {}
    /\ DispatchedRight

C1_Witness ==
    /\ Kind = "KeysClaim"
    /\ Succeeded(with_id)
    /\ Succeeded(dispatched)
    /\ dispatched.value.arm = "C"

----------------------------------------------------------------------------
(* C2 *)

\* C2: the id of a record returned by the dispatcher is the string form of
\* the identifier of the request given to the dispatcher
C2_DispatchedId ==
    Succeeded(dispatched) => dispatched.value.record.fields.id = request_id.str

C2_Witness ==
    /\ Succeeded(dispatched)
    /\ Kind = "ToDevice"
    /\ request_id = TransactionId("42")
    /\ dispatched.value.record.fields.id = "42"

----------------------------------------------------------------------------
(* C3 *)

DeclaredKeys ==
    [KeysUploadRequest |-> {"device_keys", "one_time_keys", "fallback_keys"},
     KeysQueryRequest |-> {"timeout", "device_keys"},
     KeysClaimRequest |-> {"timeout", "one_time_keys"},
     ToDeviceRequest |-> {"messages"},
     SignatureUploadRequest |-> {"signed_keys"},
     RoomMessageRequest |-> {"content"},
     KeysBackupRequest |-> {"rooms"}]

BodyKeysAre(r, keys) ==
    /\ ParsedBody(r).ok
    /\ ParsedBody(r).value.json = "Object"
    /\ Keys(ParsedBody(r).value.map) = keys

\* C3 as stated: for every kind, RoomMessage included, the body of a
\* successful conversion parses to an object whose keys are the declared
\* grouped fields
C3_EveryKind ==
    \A r \in Returned : r.ok => BodyKeysAre(r, DeclaredKeys[r.value.struct])

\* C3 amended: for the six kinds other than RoomMessage the body of a
\* successful conversion parses to an object whose keys are exactly the
\* declared grouped fields, whatever the values of the source fields; the
\* body of a RoomMessage is the content itself, and its keys are the
\* content's own
C3_GroupingKinds ==
    \A r \in Returned :
        r.ok =>
            IF r.value.struct = "RoomMessageRequest"
            THEN BodyKeysAre(r, {request.content.content.entries[i].k :
                                    i \in 1..Len(request.content.content.entries)})
            ELSE BodyKeysAre(r, DeclaredKeys[r.value.struct])

C3_Witness ==
    /\ Kind = "KeysUpload"
    /\ request.device_keys = None
    /\ Succeeded(with_id)
    /\ BodyKeysAre(with_id, {"device_keys", "one_time_keys", "fallback_keys"})

----------------------------------------------------------------------------
(* C4 *)

\* C4: a conversion returns a record with every field of its struct set, or
\* an error and nothing of a record
C4_AllOrNothing ==
    \A r \in Returned :
        IF r.ok
        THEN /\ DOMAIN r = {"ok", "value"}
             /\ DOMAIN r.value = {"struct", "fields"}
             /\ DOMAIN r.value.fields = StructFields[r.value.struct]
        ELSE /\ DOMAIN r = {"ok", "error"}
             /\ SerializationError(r)

\* the extracted fields of a ToDevice request converted, then the body failed
C4_Witness ==
    /\ Kind = "ToDevice"
    /\ request.messages = Unserializable
    /\ Failed(with_id)
    /\ Failed(dispatched)

----------------------------------------------------------------------------
(* C5 *)

FailedOnTimeout(r) == SerializationError(r) /\ r.error.reason = "TryFromIntError"

\* C5: a timeout of exactly u64::MAX milliseconds converts, one of a
\* millisecond more fails, and a conversion fails on the timeout exactly
\* when the whole milliseconds of the timeout exceed u64::MAX
C5_TimeoutBoundary ==
    HasTimeout =>
        \A r \in Returned :
            /\ (request.timeout = Some(Duration(MaxSecs, 615000000))
                    /\ request[OtherField] # Unserializable) => r.ok
            /\ request.timeout = Some(Duration(MaxSecs, 616000000)) =>
                    FailedOnTimeout(r)
            /\ FailedOnTimeout(r) <=>
                    /\ request.timeout # None
                    /\ ~LessEq(WholeMillis(request.timeout.v), U64_MAX)
            /\ FailedOnTimeout(r) <=>
                    (request.timeout # None /\ request.timeout.v \in TooLong)

C5_Witness ==
    /\ Kind = "KeysQuery"
    /\ request.timeout = Some(Duration(MaxSecs, 616000000))
    /\ FailedOnTimeout(with_id)

----------------------------------------------------------------------------
(* C6 *)

ClaimedNanos == <<1,8,4,4,6,7,4,4,0,7,3,7,0,9,5,5,1,6,1,5,0,0,1>>

OverflowingNanos == <<1,8,4,4,6,7,4,4,0,7,3,7,0,9,5,5,1,6,1,6,0,0,0,0,0,0>>

IsClaimOf(nanos) ==
    /\ Kind = "KeysClaim"
    /\ request.timeout # None
    /\ Nanos(request.timeout.v) = nanos

\* C6 as stated: a KeysClaim request with a timeout of
\* 18446744073709551615001 nanoseconds fails to convert
C6_ClaimFails ==
    IsClaimOf(ClaimedNanos) => \A r \in Returned : SerializationError(r)

\* C6 amended: a KeysClaim request with a timeout of 18446744073709551615001
\* nanoseconds does not fail on the timeout: these are 18446744073709551
\* whole milliseconds, which fit in a u64 and become the body's timeout; a
\* timeout of 18446744073709551616000000 nanoseconds (u64::MAX + 1
\* milliseconds) fails with a SerializationError and no partial record
C6_ClaimConverts ==
    /\ IsClaimOf(ClaimedNanos) =>
          \A r \in Returned :
              /\ ~FailedOnTimeout(r)
              /\ r.ok <=> request.one_time_keys # Unserializable
              /\ r.ok => /\ ParsedBody(r).ok
                         /\ Get(ParsedBody(r).value.map, "timeout")
                                = Number(<<1,8,4,4,6,7,4,4,0,7,3,7,0,9,5,5,1>>)
    /\ IsClaimOf(OverflowingNanos) =>
          \A r \in Returned : FailedOnTimeout(r) /\ DOMAIN r = {"ok", "error"}

C6_Witness ==
    /\ IsClaimOf(ClaimedNanos)
    /\ Succeeded(with_id)
    /\ Succeeded(dispatched)

----------------------------------------------------------------------------
(* C7 *)

\* C7: the body's timeout is the whole milliseconds of the source timeout
\* (10 seconds give 10000), and the rest of the record (the id, the other
\* grouped field) is what it is whatever the timeout
C7_TimeoutCarried ==
    HasTimeout =>
        \A r \in Returned :
            r.ok =>
                /\ ParsedBody(r).ok
                /\ request.timeout = Some(Duration(<<1,0>>, 0)) =>
                      Get(ParsedBody(r).value.map, "timeout")
                          = Number(<<1,0,0,0,0>>)
                /\ request.timeout # None =>
                      Get(ParsedBody(r).value.map, "timeout")
                          = Number(WholeMillis(request.timeout.v))
                /\ r.value.fields.id \in {"", request_id.str}
                /\ JsonEq(Get(ParsedBody(r).value.map, OtherField),
                          to_value(request[OtherField], preserve_order).value)
                /\ DOMAIN r.value.fields = {"id", "body"}

C7_Witness ==
    /\ Kind = "KeysQuery"
    /\ request.timeout = Some(Duration(<<1,0>>, 0))
    /\ Succeeded(with_id)
    /\ Get(ParsedBody(with_id).value.map, "timeout") = Number(<<1,0,0,0,0>>)

----------------------------------------------------------------------------
(* C8 *)

ContentEventType == [RoomMessage |-> "m.room.message", RoomEncrypted |-> "m.room.encrypted"]

\* the JSON object of a content: its fields, each a string
ContentObject(content) ==
    Object([i \in 1..Len(content.content.entries) |->
               [k |-> content.content.entries[i].k,
                v |-> String(content.content.entries[i].v.str)]])

\* C8: room_id and txn_id of a RoomMessage record are the strings of the
\* source's, event_type is the event type of the content, and the body is
\* the JSON of the content itself, not an object keyed by `content`
C8_RoomMessage ==
    Kind = "RoomMessage" =>
        \A r \in Returned :
            r.ok =>
                /\ r.value.fields.room_id = request.room_id.str
                /\ r.value.fields.txn_id = request.txn_id.str
                /\ r.value.fields.event_type = ContentEventType[request.content.variant]
                /\ ParsedBody(r).ok
                /\ JsonEq(ParsedBody(r).value, ContentObject(request.content))
                /\ "content" \notin Keys(ParsedBody(r).value.map)

C8_Witness ==
    /\ Kind = "RoomMessage"
    /\ request.room_id = RoomId("!abc:example.org")
    /\ request.txn_id = TransactionId("42")
    /\ request.content.variant = "RoomMessage"
    /\ Succeeded(with_id)
    /\ with_id.value.fields.event_type = "m.room.message"
    /\ with_id.value.fields.room_id = "!abc:example.org"
    /\ with_id.value.fields.txn_id = "42"

----------------------------------------------------------------------------
(* C10 *)

\* C10: for the same payload the conversion without an identifier fails
\* exactly when the one with an identifier fails, and on success gives the
\* same record but for the id, which is the empty string
C10_WithoutId ==
    (without_id # NoResult /\ with_id # NoResult) =>
        /\ without_id.ok <=> with_id.ok
        /\ without_id.ok =>
              /\ without_id.value.fields.id = ""
              /\ without_id.value.struct = with_id.value.struct
              /\ DOMAIN without_id.value.fields = DOMAIN with_id.value.fields
              /\ \A f \in DOMAIN with_id.value.fields \ {"id"} :
                    without_id.value.fields[f] = with_id.value.fields[f]

C10_Witness ==
    /\ Succeeded(without_id)
    /\ Succeeded(with_id)
    /\ Kind = "ToDevice"
    /\ with_id.value.fields.id = "42"
    /\ without_id.value.fields.id = ""

====
